---------------------------- MODULE Spec2Model ----------------------------
(***************************************************************************)
(* The navigation-and-extraction engine of glamapp (src/dependencies.py,   *)
(* src/routers/instagram.py): the bounded-retry wrapper, the element       *)
(* locator, login and profile validation, post classification, button      *)
(* pagination, the carousel walk, the two @cache decorators and the        *)
(* get_photos request that drives them on a page session of its own.       *)
(*                                                                         *)
(* Six specifications:                                                     *)
(*   SpecRetry  waiter_wrapper, find_element and next_element applied to   *)
(*              scripted operations (every top_attempts, exp_exc and       *)
(*              outcome sequence within the bounds);                       *)
(*   SpecWalk   get_carousel_media on an open carousel;                    *)
(*   Spec       one request against a site, on a page session of its own;  *)
(*   SpecLive   Spec, with the request's coroutine scheduled fairly;       *)
(*   SpecSeq    requests served one after the other, each on a page        *)
(*              session of its own, sharing the cache backend;             *)
(*   SpecConc   requests served concurrently, interleaved at their awaits. *)
(***************************************************************************)
EXTENDS Integers, Sequences, FiniteSets, TLC

VARIABLES
    feed,             \* the site: the post feed of the existing profile
    result_cache,     \* backend entries written by @cache(expire=15) get_profile_media_urls
    post_type_cache,  \* backend entries written by @cache(15) get_post_type
    live,             \* page sessions (drivers) created and not yet released
    pc,               \* per request: position in the code
    call,             \* per request: the arguments of get_profile_media_urls
    loc,              \* per request: local variables of the running functions
    page,             \* per request: what its page session currently shows
    obs,              \* per request: what was done on the page session
    out,              \* per request: how get_profile_media_urls ended
    h                 \* SpecRetry: the wrapped call under test and its result

vars == <<feed, result_cache, post_type_cache, live, pc, call, loc, page, obs, out, h>>

(***************************************************************************)
(* Bounds of the model.                                                    *)
(***************************************************************************)
MaxPosts == 2         \* posts in the feed
MaxSlides == 2        \* slides of a carousel
MaxCount == 2         \* largest max_count requested
MaxReq == 2           \* SpecSeq: requests served
MaxPostsSeq == 1      \* SpecSeq: posts in the feed
MaxFlaky == 1         \* lookups an existing element may miss while it renders
MaxAttempts == 3      \* SpecRetry: largest top_attempts / tries
MaxFails == 3         \* SpecRetry: scripted failures before the operation settles
MaxLate == 2          \* SpecRetry: lookups past find_element's budget a control may miss
MaxWalkSlides == 5    \* SpecWalk: slides of the carousel
MaxWalkCount == 3     \* SpecWalk: largest max_count of get_carousel_media
MaxCountConc == 1     \* SpecConc: largest max_count requested

(***************************************************************************)
(* Program constants.                                                      *)
(***************************************************************************)
TOP_ATTEMPTS == 10    \* waiter_wrapper(top_attempts: int = 10)
SLEEP_TIME == 1       \* waiter_wrapper(sleep_time: int = 1)
FIND_TRIES == 10      \* find_element(tries: int = 10)
EXPIRE == 15          \* @cache(15), @cache(expire=15)
SLIDE_TRIES == 3      \* next_element(..., SLIDE, tries=3)
POST_TRIES == 1       \* next_element(tries: int = 1)
CAROUSEL_MAX_COUNT == 1   \* get_carousel_media(..., max_count=1) in the post loop

None == "None"
Elem == "element"

\* selenium.common.exceptions and the builtin errors the code can meet
NoSuchElement == "NoSuchElementException"
StaleElement == "StaleElementReferenceException"
InvalidSelector == "InvalidSelectorException"
AttributeError == "AttributeError"
UserNotFound == "UserNotFound"
ErrKinds == {NoSuchElement, StaleElement}

\* InstagramMediaTypesSelectors
PHOTO == "PHOTO"
CLIP == "CLIP"
CAROUSEL == "CAROUSEL"
InstagramMediaTypesSelectors == {PHOTO, CLIP, CAROUSEL}

\* InstagramNextButtonSelectors
POST == "POST"
SLIDE == "SLIDE"

(***************************************************************************)
(* A fallible operation, as the wrapper sees it: its i-th invocation fails *)
(* with kind fails[i] while i <= Len(fails); after that it returns val     *)
(* (rest = "ok") or keeps failing with kind rest.                          *)
(***************************************************************************)
OpOutcome(func, i) ==
    IF i <= Len(func.fails) THEN [ok |-> FALSE, kind |-> func.fails[i], val |-> None]
    ELSE IF func.rest = "ok" THEN [ok |-> TRUE, kind |-> "none", val |-> func.val]
    ELSE [ok |-> FALSE, kind |-> func.rest, val |-> None]

\* the operation as it is after n invocations were made of it
Shift(func, n) ==
    [func EXCEPT !.fails = IF n >= Len(func.fails) THEN <<>>
                           ELSE SubSeq(func.fails, n + 1, Len(func.fails))]

RECURSIVE inner_off_by_one(_, _, _, _, _)
inner_off_by_one(top_attempts, exp_exc, func, attempts0, delays) ==
    LET attempts == attempts0 + 1
        o == OpOutcome(func, attempts)
    IN  IF o.ok
        THEN [raised |-> FALSE, value |-> o.val, kind |-> "none",
              invocations |-> attempts, delays |-> delays]
        ELSE IF attempts > top_attempts \/ o.kind \in exp_exc
        THEN [raised |-> TRUE, value |-> None, kind |-> o.kind,
              invocations |-> attempts, delays |-> delays]
        ELSE inner_off_by_one(top_attempts, exp_exc, func, attempts, delays + 1)

\* waiter_wrapper whose bound is off by one (attempts > top_attempts)
waiter_wrapper_off_by_one(top_attempts, exp_exc, func) ==
    inner_off_by_one(top_attempts, exp_exc, func, 0, 0)

RECURSIVE inner_no_exp_exc(_, _, _, _, _)
inner_no_exp_exc(top_attempts, exp_exc, func, attempts0, delays) ==
    LET attempts == attempts0 + 1
        o == OpOutcome(func, attempts)
    IN  IF o.ok
        THEN [raised |-> FALSE, value |-> o.val, kind |-> "none",
              invocations |-> attempts, delays |-> delays]
        ELSE IF attempts >= top_attempts
        THEN [raised |-> TRUE, value |-> None, kind |-> o.kind,
              invocations |-> attempts, delays |-> delays]
        ELSE inner_no_exp_exc(top_attempts, exp_exc, func, attempts, delays + 1)

\* waiter_wrapper that retries the kinds listed in exp_exc like any other
waiter_wrapper_ignores_exp_exc(top_attempts, exp_exc, func) ==
    inner_no_exp_exc(top_attempts, exp_exc, func, 0, 0)

(***************************************************************************)
(* waiter_wrapper(top_attempts, sleep_time, exp_exc)(func)(...): the loop  *)
(* of inner. The result records what the caller sees (a value returned or  *)
(* an error raised) and what the loop did (invocations of func, sleeps).   *)
(***************************************************************************)
RECURSIVE inner(_, _, _, _, _)
inner(top_attempts, exp_exc, func, attempts0, delays) ==
    LET attempts == attempts0 + 1
        o == OpOutcome(func, attempts)
    IN  IF o.ok
        THEN [raised |-> FALSE, value |-> o.val, kind |-> "none",
              invocations |-> attempts, delays |-> delays]
        ELSE IF attempts >= top_attempts \/ o.kind \in exp_exc
        THEN [raised |-> TRUE, value |-> None, kind |-> o.kind,
              invocations |-> attempts, delays |-> delays]
        ELSE inner(top_attempts, exp_exc, func, attempts, delays + 1)

waiter_wrapper(top_attempts, exp_exc, func) ==
    inner(top_attempts, exp_exc, func, 0, 0)

\* find_element that lets NoSuchElementException through
find_element_no_except(tries, func) ==
    waiter_wrapper(tries, {}, func)

(***************************************************************************)
(* find_element(driver, by, value, tries): the lookup through              *)
(* waiter_wrapper(top_attempts=tries); NoSuchElementException becomes None,*)
(* any other error propagates.                                             *)
(***************************************************************************)
find_element(tries, func) ==
    LET w == waiter_wrapper(tries, {}, func)
    IN  IF w.raised /\ w.kind = NoSuchElement
        THEN [w EXCEPT !.raised = FALSE, !.kind = "none", !.value = None]
        ELSE w


(***************************************************************************)
(* The site and the page session.                                          *)
(***************************************************************************)
Requests == 1 .. MaxReq
Usernames == {"realuser", "ghostuser"}
\* the usernames whose profile page shows the 'Posts' marker
Profiles == {"realuser"}

SlideSeqs == UNION {[1 .. n -> {PHOTO, CLIP}] : n \in 2 .. MaxSlides}
PostKinds == {[type |-> PHOTO, slides |-> <<>>], [type |-> CLIP, slides |-> <<>>]}
             \cup {[type |-> CAROUSEL, slides |-> s] : s \in SlideSeqs}
Feeds == UNION {[1 .. n -> PostKinds] : n \in 0 .. MaxPosts}

\* driver.find_element on an element that exists and renders after j missed
\* lookups, on one that does not exist, and with a selector that is no selector
Rendered(j) == [fails |-> [i \in 1 .. j |-> NoSuchElement], rest |-> "ok", val |-> Elem]
Absent == [fails |-> <<>>, rest |-> NoSuchElement, val |-> None]
Invalid == [fails |-> <<>>, rest |-> InvalidSelector, val |-> None]
driver_find_element(exists, j) == IF exists THEN Rendered(j) ELSE Absent

OnPost(pg) == pg.kind = "post" /\ pg.post \in 1 .. Len(feed)
OnCarousel(pg) == OnPost(pg) /\ feed[pg.post].type = CAROUSEL
\* "?img_index" in driver.current_url
HasImgIndex(pg) == OnCarousel(pg)
\* the kind of media the open post (or the open slide of a carousel) shows
Shown(pg) ==
    IF ~OnPost(pg) THEN None
    ELSE IF feed[pg.post].type # CAROUSEL THEN feed[pg.post].type
    ELSE IF pg.slide \in 1 .. Len(feed[pg.post].slides) THEN feed[pg.post].slides[pg.slide]
    ELSE None
\* the src attribute of the media element the page shows
Src(pg) == <<pg.post, pg.slide>>
\* the lookup of a media type's selector on the page
media_lookup(pg, media_type, j) ==
    IF media_type = CAROUSEL THEN Invalid
    ELSE driver_find_element(Shown(pg) = media_type, j)
HasNextPost(pg) == OnPost(pg) /\ pg.post < Len(feed)
HasNextSlide(pg) == OnCarousel(pg) /\ pg.slide < Len(feed[pg.post].slides)
NextButton(pg, button_selector) ==
    IF button_selector = POST THEN HasNextPost(pg) ELSE HasNextSlide(pg)
OpenPost(i) == [kind |-> "post", post |-> i,
                slide |-> IF i \in 1 .. Len(feed) /\ feed[i].type = CAROUSEL THEN 1 ELSE 0]
\* a next control whose click leaves the page where it is
Clicked_in_place(pg, button_selector) == pg

\* the page after the next control was clicked
Clicked(pg, button_selector) ==
    IF button_selector = POST THEN OpenPost(pg.post + 1)
    ELSE [pg EXCEPT !.slide = @ + 1]

BlankPage == [kind |-> "blank", post |-> 0, slide |-> 0]
HomePage == [kind |-> "home", post |-> 0, slide |-> 0]
ProfilePage == [kind |-> "profile", post |-> 0, slide |-> 0]

(***************************************************************************)
(* The cache backend: entries with a remaining time to live.               *)
(***************************************************************************)
Elapse(entries, d) ==
    {[e EXCEPT !.ttl = @ - d] : e \in {x \in entries : x.ttl > d}}
Hit(entries, key) == \E e \in entries : e.key = key
Get(entries, key) == (CHOOSE e \in entries : e.key = key).val
Set(entries, key, val) ==
    {e \in entries : e.key # key} \cup {[key |-> key, val |-> val, ttl |-> EXPIRE]}

\* fastapi_cache's key of a get_profile_media_urls call: the function and
\* every keyword argument it was called with
profile_media_key(c) ==
    [func |-> "get_profile_media_urls", username |-> c.username,
     media_type |-> c.media_type, driver |-> c.driver, max_count |-> c.max_count]
\* and of a get_post_type call, whose only argument is the driver
post_type_key(driver) == [func |-> "get_post_type", driver |-> driver]

NoCall == [username |-> None, media_type |-> None, max_count |-> 0, driver |-> 0]
NoKey == profile_media_key(NoCall)
NoLoc == [key |-> NoKey, medias |-> <<>>, post_type |-> None, last_post |-> FALSE,
          username_field |-> None, password_field |-> None,
          links |-> <<>>, last_slide |-> FALSE, carousel_element |-> None,
          max_count |-> CAROUSEL_MAX_COUNT]
NoStep == [lookups |-> 0, clicks |-> 0, scripted |-> FALSE, end |-> FALSE]
\* iterations: iterations of the post loop begun; inspected: slides looked at
\* by get_carousel_media; steps: its calls of next_element; overlap: another
\* call had missed and not yet ended when this one read the cache
NoObs == [navs |-> 0, login |-> FALSE, looked |-> FALSE, clicked |-> FALSE,
          post_link |-> FALSE, step |-> NoStep,
          iterations |-> 0, inspected |-> 0, steps |-> 0, overlap |-> FALSE]
NoOut == [status |-> "none", urls |-> <<>>, error |-> None, username |-> None,
          hit |-> FALSE]
NoHarness == [kind |-> "none", top_attempts |-> 0, exp_exc |-> {},
              func |-> Absent, done |-> FALSE, intercepted |-> FALSE, step |-> NoStep,
              res |-> [raised |-> FALSE, value |-> None, kind |-> "none",
                       invocations |-> 0, delays |-> 0]]

(***************************************************************************)
(* next_element(driver, button_selector, tries): up to `tries` calls of    *)
(* find_element for the next control; the first one that finds it clicks   *)
(* it (by script when the click is intercepted) and ends the loop.         *)
(***************************************************************************)
\* the one element of a singleton
Only(S) == CHOOSE x \in S : TRUE

\* (f ranges over the one result of the find_element call of the iteration)
RECURSIVE next_element_loop(_, _, _, _, _, _)
next_element_loop(tries, func, intercepted, i, lookups, delays) ==
    IF i >= tries
    THEN [end |-> TRUE, lookups |-> lookups, delays |-> delays, clicks |-> 0,
          scripted |-> FALSE]
    ELSE Only({IF f.value # None
               THEN [end |-> FALSE, lookups |-> lookups + f.invocations,
                     delays |-> delays + f.delays, clicks |-> 1,
                     scripted |-> intercepted]
               ELSE next_element_loop(tries, func, intercepted, i + 1,
                                      lookups + f.invocations, delays + f.delays)
               : f \in {find_element(FIND_TRIES, Shift(func, lookups))}})

\* next_element whose scripted click comes on top of a click that landed
next_element_double_click(tries, func, intercepted) ==
    LET n == next_element_loop(tries, func, intercepted, 0, 0, 0)
    IN  [n EXCEPT !.clicks = IF n.scripted THEN 2 ELSE @]

next_element(tries, func, intercepted) ==
    next_element_loop(tries, func, intercepted, 0, 0, 0)

(***************************************************************************)
(* Time: every sleep of the retry loop, and every pause of the             *)
(* environment, ages the entries of the backend.                           *)
(***************************************************************************)
Aged(d) ==
    /\ result_cache' = Elapse(result_cache, d)
    /\ post_type_cache' = Elapse(post_type_cache, d)

\* what a find_element call leaves in obs
Looked(o) == [o EXCEPT !.looked = TRUE]
LookedClicked(o) == [o EXCEPT !.looked = TRUE, !.clicked = TRUE]

\* UserNotFound(username) with the name as a positional argument: it becomes
\* the message, and the error has no username attribute
UserNotFound_positional(username) == None

\* UserNotFound(username=username): __init__ sets every keyword argument as
\* an attribute of the error
UserNotFound_init(username) == username

\* an error that ends the request without leaving create_driver's with block
Raise_leaks(r, kind, username) ==
    /\ out' = [out EXCEPT ![r] = [status |-> "raised", urls |-> <<>>, error |-> kind,
                                  username |-> username, hit |-> FALSE]]
    /\ pc' = [pc EXCEPT ![r] = "done"]
    /\ loc' = [loc EXCEPT ![r] = [NoLoc EXCEPT !.key = loc[r].key]]

\* an error swallowed by get_profile_media_urls, which returns what it has
Raise_returns_medias(r, kind, username) ==
    /\ out' = out
    /\ pc' = [pc EXCEPT ![r] = "cache_set"]
    /\ loc' = loc

\* an error leaves get_profile_media_urls: nothing is written to the cache
Raise(r, kind, username) ==
    /\ out' = [out EXCEPT ![r] = [status |-> "raised", urls |-> <<>>, error |-> kind,
                                  username |-> username, hit |-> FALSE]]
    /\ pc' = [pc EXCEPT ![r] = "release"]
    /\ loc' = [loc EXCEPT ![r] = [NoLoc EXCEPT !.key = loc[r].key]]

(***************************************************************************)
(* get_photos: the request. create_driver gives it a page session of its   *)
(* own (the driver is numbered after the request). get_photos asks for     *)
(* PHOTO; get_profile_media_urls takes any media type, so the model draws  *)
(* it, with the username and a max_count of 0 .. MaxCount.                 *)
(***************************************************************************)
get_photos(r) ==
    /\ pc[r] = "idle"
    /\ \E u \in Usernames, m \in InstagramMediaTypesSelectors, c \in 0 .. MaxCount :
          call' = [call EXCEPT ![r] = [username |-> u, media_type |-> m,
                                       max_count |-> c, driver |-> r]]
    /\ live' = live \cup {r}
    /\ pc' = [pc EXCEPT ![r] = "cache_get"]
    /\ UNCHANGED <<feed, result_cache, post_type_cache, loc, page, obs, out, h>>

\* the call of request q is inside get_profile_media_urls: it missed the
\* cache and has neither returned nor raised
InFlight(q) == pc[q] \notin {"idle", "cache_get", "release", "done"}

\* @cache(expire=15): the key is built and the backend read; a hit returns
\* the stored value without calling the function
cache_get(r) ==
    /\ pc[r] = "cache_get"
    /\ LET key == profile_media_key(call[r])
       IN  /\ loc' = [loc EXCEPT ![r].key = key]
           /\ obs' = [obs EXCEPT ![r].overlap = \E q \in Requests \ {r} : InFlight(q)]
           /\ IF Hit(result_cache, key)
              THEN /\ out' = [out EXCEPT ![r] = [status |-> "returned",
                                                 urls |-> Get(result_cache, key),
                                                 error |-> None, username |-> None,
                                                 hit |-> TRUE]]
                   /\ pc' = [pc EXCEPT ![r] = "release"]
              ELSE /\ out' = out
                   /\ pc' = [pc EXCEPT ![r] = "login_get_url"]
    /\ UNCHANGED <<feed, result_cache, post_type_cache, live, call, page, h>>

(***************************************************************************)
(* login_instagram, called by validate_user, called by get_profile.        *)
(***************************************************************************)
\* the errors validate_user's try/except around login_instagram swallows
validate_user_excepts(kind) == kind = NoSuchElement

\* an error leaves login_instagram
LoginRaise(r, kind) ==
    IF validate_user_excepts(kind)
    THEN /\ pc' = [pc EXCEPT ![r] = "validate_get_url"]
         /\ loc' = [loc EXCEPT ![r].username_field = None, ![r].password_field = None]
         /\ out' = out
    ELSE Raise(r, kind, None)

login_get_url(r) ==
    /\ pc[r] = "login_get_url"
    /\ page' = [page EXCEPT ![r] = HomePage]
    /\ obs' = [obs EXCEPT ![r].navs = @ + 1, ![r].login = TRUE]
    /\ pc' = [pc EXCEPT ![r] = "login_username"]
    /\ UNCHANGED <<feed, result_cache, post_type_cache, live, call, loc, out, h>>

login_username(r) ==
    /\ pc[r] = "login_username"
    /\ \E exists \in BOOLEAN, j \in 0 .. MaxFlaky :
          LET f == find_element(FIND_TRIES, driver_find_element(exists, j))
          IN  /\ loc' = [loc EXCEPT ![r].username_field = f.value]
              /\ Aged(f.delays * SLEEP_TIME)
    /\ obs' = [obs EXCEPT ![r] = Looked(@)]
    /\ pc' = [pc EXCEPT ![r] = "login_password"]
    /\ UNCHANGED <<feed, live, call, page, out, h>>

login_password(r) ==
    /\ pc[r] = "login_password"
    /\ \E exists \in BOOLEAN, j \in 0 .. MaxFlaky :
          LET f == find_element(FIND_TRIES, driver_find_element(exists, j))
          IN  /\ loc' = [loc EXCEPT ![r].password_field = f.value]
              /\ Aged(f.delays * SLEEP_TIME)
    /\ obs' = [obs EXCEPT ![r] = Looked(@)]
    /\ pc' = [pc EXCEPT ![r] = "login_fill"]
    /\ UNCHANGED <<feed, live, call, page, out, h>>

\* username_field.clear() ... password_field.send_keys(...): a field that is
\* None has no such attribute
login_fill(r) ==
    /\ pc[r] = "login_fill"
    /\ IF loc[r].username_field = None \/ loc[r].password_field = None
       THEN LoginRaise(r, AttributeError)
       ELSE /\ pc' = [pc EXCEPT ![r] = "login_submit"]
            /\ loc' = [loc EXCEPT ![r].username_field = None, ![r].password_field = None]
            /\ out' = out
    /\ UNCHANGED <<feed, result_cache, post_type_cache, live, call, page, obs, h>>

login_submit(r) ==
    /\ pc[r] = "login_submit"
    /\ \E exists \in BOOLEAN, j \in 0 .. MaxFlaky :
          LET f == find_element(FIND_TRIES, driver_find_element(exists, j))
          IN  /\ Aged(f.delays * SLEEP_TIME)
              /\ IF f.value = None
                 THEN /\ LoginRaise(r, AttributeError)
                      /\ obs' = [obs EXCEPT ![r] = Looked(@)]
                 ELSE /\ pc' = [pc EXCEPT ![r] = "login_save"]
                      /\ obs' = [obs EXCEPT ![r] = LookedClicked(@)]
                      /\ UNCHANGED <<loc, out>>
    /\ UNCHANGED <<feed, live, call, page, h>>

\* the two 'Not Now' dialogs: clicked when present
login_save(r) ==
    /\ pc[r] = "login_save"
    /\ \E exists \in BOOLEAN, j \in 0 .. MaxFlaky :
          LET f == find_element(FIND_TRIES, driver_find_element(exists, j))
          IN  /\ Aged(f.delays * SLEEP_TIME)
              /\ obs' = [obs EXCEPT ![r] = IF f.value # None THEN LookedClicked(@)
                                           ELSE Looked(@)]
    /\ pc' = [pc EXCEPT ![r] = "login_notification"]
    /\ UNCHANGED <<feed, live, call, loc, page, out, h>>

login_notification(r) ==
    /\ pc[r] = "login_notification"
    /\ \E exists \in BOOLEAN, j \in 0 .. MaxFlaky :
          LET f == find_element(FIND_TRIES, driver_find_element(exists, j))
          IN  /\ Aged(f.delays * SLEEP_TIME)
              /\ obs' = [obs EXCEPT ![r] = IF f.value # None THEN LookedClicked(@)
                                           ELSE Looked(@)]
    /\ pc' = [pc EXCEPT ![r] = "validate_get_url"]
    /\ UNCHANGED <<feed, live, call, loc, page, out, h>>

(***************************************************************************)
(* validate_user after the login, and get_profile's own navigation.        *)
(***************************************************************************)
validate_get_url(r) ==
    /\ pc[r] = "validate_get_url"
    /\ page' = [page EXCEPT ![r] = ProfilePage]
    /\ obs' = [obs EXCEPT ![r].navs = @ + 1]
    /\ pc' = [pc EXCEPT ![r] = "validate_posts"]
    /\ UNCHANGED <<feed, result_cache, post_type_cache, live, call, loc, out, h>>

validate_posts(r) ==
    /\ pc[r] = "validate_posts"
    /\ \E j \in 0 .. MaxFlaky :
          LET f == find_element(FIND_TRIES,
                                driver_find_element(call[r].username \in Profiles, j))
          IN  /\ Aged(f.delays * SLEEP_TIME)
              /\ IF f.value = None
                 THEN Raise(r, UserNotFound, UserNotFound_init(call[r].username))
                 ELSE /\ pc' = [pc EXCEPT ![r] = "profile_get_url"]
                      /\ UNCHANGED <<loc, out>>
    /\ obs' = [obs EXCEPT ![r] = Looked(@)]
    /\ UNCHANGED <<feed, live, call, page, h>>

\* a post loop that goes on until the feed is exhausted
LoopOrReturn_ignores_count(medias, max_count, last_post) ==
    IF ~last_post THEN "post_type" ELSE "cache_set"

\* where the post loop of get_profile_media_urls goes after an iteration
\* (while len(medias) < max_count and not last_post), or after it ended
LoopOrReturn(medias, max_count, last_post) ==
    IF Len(medias) < max_count /\ ~last_post THEN "post_type" ELSE "cache_set"

\* get_profile that forgets the max_count guard of its caller
AfterProfileNoGuard(max_count) == "first_post"

\* get_profile_media_urls after get_profile: if max_count != 0
AfterProfile(max_count) == IF max_count # 0 THEN "first_post" ELSE "cache_set"

profile_get_url(r) ==
    /\ pc[r] = "profile_get_url"
    /\ page' = [page EXCEPT ![r] = ProfilePage]
    /\ obs' = [obs EXCEPT ![r].navs = @ + 1]
    /\ pc' = [pc EXCEPT ![r] = AfterProfile(call[r].max_count)]
    /\ UNCHANGED <<feed, result_cache, post_type_cache, live, call, loc, out, h>>

(***************************************************************************)
(* get_profile_media_urls: the first post and the post loop.               *)
(***************************************************************************)
first_post(r) ==
    /\ pc[r] = "first_post"
    /\ \E j \in 0 .. MaxFlaky :
          LET f == find_element(FIND_TRIES, driver_find_element(Len(feed) > 0, j))
          IN  /\ Aged(f.delays * SLEEP_TIME)
              /\ IF f.value # None
                 THEN /\ page' = [page EXCEPT ![r] = OpenPost(1)]
                      /\ obs' = [obs EXCEPT ![r] = LookedClicked([@ EXCEPT !.post_link = TRUE])]
                      /\ loc' = [loc EXCEPT ![r].last_post = FALSE]
                      /\ pc' = [pc EXCEPT ![r] =
                                  LoopOrReturn(loc[r].medias, call[r].max_count, FALSE)]
                 ELSE /\ page' = page
                      /\ obs' = [obs EXCEPT ![r] = Looked([@ EXCEPT !.post_link = TRUE])]
                      /\ loc' = loc
                      /\ pc' = [pc EXCEPT ![r] = "cache_set"]
    /\ UNCHANGED <<feed, live, call, out, h>>

\* get_post_type under @cache(15): the key is the driver alone; a miss
\* classifies the open post and stores the type
get_post_type(r) ==
    /\ pc[r] = "post_type"
    /\ LET key == post_type_key(call[r].driver)
       IN  IF Hit(post_type_cache, key)
           THEN /\ loc' = [loc EXCEPT ![r].post_type = Get(post_type_cache, key)]
                /\ obs' = [obs EXCEPT ![r].iterations = @ + 1]
                /\ UNCHANGED <<result_cache, post_type_cache>>
           ELSE IF HasImgIndex(page[r])
           THEN /\ loc' = [loc EXCEPT ![r].post_type = CAROUSEL]
                /\ post_type_cache' = Set(post_type_cache, key, CAROUSEL)
                /\ obs' = [obs EXCEPT ![r].iterations = @ + 1]
                /\ UNCHANGED result_cache
           ELSE \E j \in 0 .. MaxFlaky :
                  LET f == find_element(FIND_TRIES, media_lookup(page[r], PHOTO, j))
                      t == IF f.value # None THEN PHOTO ELSE CLIP
                  IN  /\ loc' = [loc EXCEPT ![r].post_type = t]
                      /\ result_cache' = Elapse(result_cache, f.delays * SLEEP_TIME)
                      /\ post_type_cache' =
                            Set(Elapse(post_type_cache, f.delays * SLEEP_TIME), key, t)
                      /\ obs' = [obs EXCEPT ![r] = Looked([@ EXCEPT !.iterations = @ + 1])]
    /\ pc' = [pc EXCEPT ![r] = "post_media"]
    /\ UNCHANGED <<feed, live, call, page, out, h>>

\* if post_type == media_type: medias.append((await find_element(...,
\* value=media_type.value)).get_attribute("src")); None has no get_attribute
post_media(r) ==
    /\ pc[r] = "post_media"
    /\ IF loc[r].post_type = call[r].media_type
       THEN \E j \in 0 .. MaxFlaky :
              LET f == find_element(FIND_TRIES, media_lookup(page[r], call[r].media_type, j))
              IN  /\ Aged(f.delays * SLEEP_TIME)
                  /\ obs' = [obs EXCEPT ![r] = Looked(@)]
                  /\ IF f.raised THEN Raise(r, f.kind, None)
                     ELSE IF f.value = None THEN Raise(r, AttributeError, None)
                     ELSE /\ loc' = [loc EXCEPT ![r].medias = Append(@, Src(page[r]))]
                          /\ pc' = [pc EXCEPT ![r] = IF loc[r].post_type = CAROUSEL
                                                     THEN "carousel_container"
                                                     ELSE "next_post"]
                          /\ out' = out
       ELSE /\ pc' = [pc EXCEPT ![r] = IF loc[r].post_type = CAROUSEL
                                       THEN "carousel_container" ELSE "next_post"]
            /\ UNCHANGED <<result_cache, post_type_cache, obs, loc, out>>
    /\ UNCHANGED <<feed, live, call, page, h>>

(***************************************************************************)
(* get_carousel_media(driver, media_type, max_count=1), called for a post  *)
(* classified CAROUSEL: while not last_slide and len(links) < max_count.   *)
(***************************************************************************)
\* the li of the open slide: there is none on a page that is no carousel,
\* and the carousel's markup may lack it
carousel_container(r) ==
    /\ pc[r] = "carousel_container"
    /\ \E exists \in BOOLEAN, j \in 0 .. MaxFlaky :
          LET f == find_element(FIND_TRIES,
                                driver_find_element(exists /\ OnCarousel(page[r]), j))
          IN  /\ Aged(f.delays * SLEEP_TIME)
              /\ loc' = [loc EXCEPT ![r].carousel_element = f.value]
    /\ obs' = [obs EXCEPT ![r] = Looked(@)]
    /\ pc' = [pc EXCEPT ![r] = "carousel_slide"]
    /\ UNCHANGED <<feed, live, call, page, out, h>>

\* find_element(driver=carousel_element, ...): driver.find_element is read
\* off the container before the retry loop starts, and None has none
carousel_slide(r) ==
    /\ pc[r] = "carousel_slide"
    /\ IF loc[r].carousel_element = None
       THEN /\ Raise(r, AttributeError, None)
            /\ UNCHANGED <<result_cache, post_type_cache, obs>>
       ELSE \E j \in 0 .. MaxFlaky :
              LET f == find_element(FIND_TRIES, media_lookup(page[r], call[r].media_type, j))
              IN  /\ Aged(f.delays * SLEEP_TIME)
                  /\ obs' = [obs EXCEPT ![r] = Looked([@ EXCEPT !.inspected = @ + 1])]
                  /\ IF f.raised THEN Raise(r, f.kind, None)
                     ELSE /\ loc' = [loc EXCEPT
                                ![r].links = IF f.value # None
                                             THEN Append(@, Src(page[r])) ELSE @,
                                ![r].carousel_element = None]
                          /\ pc' = [pc EXCEPT ![r] = "carousel_next"]
                          /\ out' = out
    /\ UNCHANGED <<feed, live, call, page, h>>

\* a walk that goes on until the carousel is exhausted
WalkAgain_ignores_count(last_slide, links, max_count) == ~last_slide

\* while not last_slide and len(carousel_media_links) < max_count
WalkAgain(last_slide, links, max_count) == ~last_slide /\ Len(links) < max_count

\* last_slide = await next_element(driver, SLIDE, tries=3), then the loop
\* condition; when the loop ends the links collected are returned
carousel_next(r) ==
    /\ pc[r] = "carousel_next"
    /\ \E j \in 0 .. MaxFlaky, intercepted \in BOOLEAN :
       \E n \in {next_element(SLIDE_TRIES,
                                driver_find_element(NextButton(page[r], SLIDE), j),
                                intercepted)} :
          LET again == WalkAgain(n.end, loc[r].links, loc[r].max_count)
          IN  /\ Aged(n.delays * SLEEP_TIME)
              /\ obs' = [obs EXCEPT ![r] =
                            [(IF n.clicks > 0 THEN LookedClicked(@) ELSE Looked(@))
                             EXCEPT !.step = [lookups |-> n.lookups, clicks |-> n.clicks,
                                              scripted |-> n.scripted, end |-> n.end],
                                    !.steps = @ + 1]]
              /\ page' = [page EXCEPT ![r] = IF n.clicks > 0 THEN Clicked(@, SLIDE) ELSE @]
              /\ loc' = [loc EXCEPT ![r].last_slide = n.end]
              /\ pc' = [pc EXCEPT ![r] = IF again THEN "carousel_container"
                                                 ELSE "carousel_return"]
    /\ UNCHANGED <<feed, live, call, out, h>>

\* back in the post loop: if carousel_media.urls:
\* medias.append(carousel_media.urls[0])
carousel_return(r) ==
    /\ pc[r] = "carousel_return"
    /\ loc' = [loc EXCEPT ![r].medias = IF loc[r].links # <<>>
                                        THEN Append(@, loc[r].links[1]) ELSE @,
                          ![r].links = <<>>, ![r].last_slide = FALSE]
    /\ pc' = [pc EXCEPT ![r] = "next_post"]
    /\ UNCHANGED <<feed, result_cache, post_type_cache, live, call, page, obs, out, h>>

\* last_post = await next_element(driver, POST), then the loop condition
next_post(r) ==
    /\ pc[r] = "next_post"
    /\ \E j \in 0 .. MaxFlaky, intercepted \in BOOLEAN :
       \E n \in {next_element(POST_TRIES,
                                driver_find_element(NextButton(page[r], POST), j),
                                intercepted)} :
              /\ Aged(n.delays * SLEEP_TIME)
              /\ obs' = [obs EXCEPT ![r] =
                            [(IF n.clicks > 0 THEN LookedClicked(@) ELSE Looked(@))
                             EXCEPT !.step = [lookups |-> n.lookups, clicks |-> n.clicks,
                                              scripted |-> n.scripted, end |-> n.end]]]
              /\ page' = [page EXCEPT ![r] = IF n.clicks > 0 THEN Clicked(@, POST) ELSE @]
              /\ loc' = [loc EXCEPT ![r].last_post = n.end, ![r].post_type = None]
              /\ pc' = [pc EXCEPT ![r] =
                          LoopOrReturn(loc[r].medias, call[r].max_count, n.end)]
    /\ UNCHANGED <<feed, live, call, out, h>>

\* return InstagramLinksModel(urls=medias), and @cache stores what the
\* function returned under the key read at the start
cache_set(r) ==
    /\ pc[r] = "cache_set"
    /\ result_cache' = Set(result_cache, loc[r].key, loc[r].medias)
    /\ out' = [out EXCEPT ![r] = [status |-> "returned", urls |-> loc[r].medias,
                                  error |-> None, username |-> None, hit |-> FALSE]]
    /\ loc' = [loc EXCEPT ![r] = [NoLoc EXCEPT !.key = loc[r].key]]
    /\ pc' = [pc EXCEPT ![r] = "release"]
    /\ UNCHANGED <<feed, post_type_cache, live, call, page, obs, h>>

\* create_driver's `with webdriver.Chrome(...)` ends with the request,
\* however get_profile_media_urls ended
release(r) ==
    /\ pc[r] = "release"
    /\ live' = live \ {call[r].driver}
    /\ page' = [page EXCEPT ![r] = BlankPage]
    /\ pc' = [pc EXCEPT ![r] = "done"]
    /\ UNCHANGED <<feed, result_cache, post_type_cache, call, loc, obs, out, h>>

\* a pause long enough for every entry of the backend to expire
time_passes ==
    /\ result_cache # {} \/ post_type_cache # {}
    /\ Aged(EXPIRE)
    /\ UNCHANGED <<feed, live, pc, call, loc, page, obs, out, h>>

(***************************************************************************)
(* SpecRetry: a wrapped call, a find_element call or a next_element call   *)
(* on a scripted operation.                                                *)
(***************************************************************************)
FailSeqs == UNION {[1 .. n -> ErrKinds] : n \in 0 .. MaxFails}
Funcs == [fails : FailSeqs, rest : {"ok"} \cup ErrKinds, val : {"v1", "v2"}]

call_wrapped ==
    /\ h.kind = "waiter_wrapper" /\ ~h.done
    /\ h' = [h EXCEPT !.done = TRUE,
                      !.res = waiter_wrapper(h.top_attempts, h.exp_exc, h.func)]
    /\ UNCHANGED <<feed, result_cache, post_type_cache, live, pc, call, loc, page, obs, out>>

call_find_element ==
    /\ h.kind = "find_element" /\ ~h.done
    /\ h' = [h EXCEPT !.done = TRUE, !.res = find_element(h.top_attempts, h.func)]
    /\ UNCHANGED <<feed, result_cache, post_type_cache, live, pc, call, loc, page, obs, out>>

\* the next control as next_element's lookups see it: there at once or after
\* a few lookups, there only after find_element's budget has run out, or
\* not there at all
Controls ==
    {Rendered(j) : j \in (0 .. MaxFlaky) \cup (FIND_TRIES .. FIND_TRIES + MaxLate)}
    \cup {Absent}

call_next_element ==
    /\ h.kind = "next_element" /\ ~h.done
    /\ \E n \in {next_element(h.top_attempts, h.func, h.intercepted)} :
          h' = [h EXCEPT !.done = TRUE,
                         !.step = [lookups |-> n.lookups, clicks |-> n.clicks,
                                   scripted |-> n.scripted, end |-> n.end]]
    /\ UNCHANGED <<feed, result_cache, post_type_cache, live, pc, call, loc, page, obs, out>>

Idle ==
    /\ result_cache = {}
    /\ post_type_cache = {}
    /\ live = {}
    /\ pc = [r \in Requests |-> "idle"]
    /\ call = [r \in Requests |-> NoCall]
    /\ loc = [r \in Requests |-> NoLoc]
    /\ page = [r \in Requests |-> BlankPage]
    /\ obs = [r \in Requests |-> NoObs]
    /\ out = [r \in Requests |-> NoOut]

InitRetry ==
    /\ feed = <<>>
    /\ Idle
    /\ \/ \E k \in {"waiter_wrapper", "find_element"},
             t \in (1 .. MaxAttempts) \cup {TOP_ATTEMPTS},
             e \in SUBSET ErrKinds, f \in Funcs :
             h = [NoHarness EXCEPT !.kind = k, !.top_attempts = t,
                                   !.exp_exc = IF k = "find_element" THEN {} ELSE e,
                                   !.func = f]
       \/ \E t \in 1 .. MaxAttempts, f \in Controls, i \in BOOLEAN :
             h = [NoHarness EXCEPT !.kind = "next_element", !.top_attempts = t,
                                   !.func = f, !.intercepted = i]

NextRetry == call_wrapped \/ call_find_element \/ call_next_element

SpecRetry == InitRetry /\ [][NextRetry]_vars

(***************************************************************************)
(* Spec: the requests.                                                     *)
(***************************************************************************)
Init ==
    /\ feed \in Feeds
    /\ Idle
    /\ h = NoHarness

Step(r) ==
    \/ get_photos(r)
    \/ cache_get(r)
    \/ login_get_url(r)
    \/ login_username(r)
    \/ login_password(r)
    \/ login_fill(r)
    \/ login_submit(r)
    \/ login_save(r)
    \/ login_notification(r)
    \/ validate_get_url(r)
    \/ validate_posts(r)
    \/ profile_get_url(r)
    \/ first_post(r)
    \/ get_post_type(r)
    \/ post_media(r)
    \/ carousel_container(r)
    \/ carousel_slide(r)
    \/ carousel_next(r)
    \/ carousel_return(r)
    \/ next_post(r)
    \/ cache_set(r)
    \/ release(r)

\* one request, from get_photos to the release of its session
Next == Step(1) \/ time_passes

Spec == Init /\ [][Next]_vars

\* the event loop keeps running the request's coroutine: every sleep of the
\* retry loop ends and every driver call returns
SpecLive == Spec /\ WF_vars(Step(1))

(***************************************************************************)
(* SpecSeq: MaxReq requests served one after the other, on a site with a   *)
(* feed of at most MaxPostsSeq posts.                                      *)
(***************************************************************************)
InitSeq ==
    /\ feed \in {f \in Feeds : Len(f) <= MaxPostsSeq}
    /\ Idle
    /\ h = NoHarness

Serve(r) ==
    /\ \A q \in Requests : q < r => pc[q] = "done"
    /\ Step(r)

NextSeq == (\E r \in Requests : Serve(r)) \/ time_passes

SpecSeq == InitSeq /\ [][NextSeq]_vars

(***************************************************************************)
(* SpecConc: the requests of SpecSeq served concurrently. Every await of a *)
(* request is a point where the event loop may run the other; get_photos   *)
(* asks for PHOTO.                                                         *)
(***************************************************************************)
Concurrent(r) ==
    /\ Step(r)
    /\ pc[r] = "idle" => /\ call'[r].media_type = PHOTO
                         /\ call'[r].max_count <= MaxCountConc

NextConc == (\E r \in Requests : Concurrent(r)) \/ time_passes

SpecConc == InitSeq /\ [][NextConc]_vars

(***************************************************************************)
(* SpecWalk: get_carousel_media(driver, media_type, max_count) called on a *)
(* session that shows the first slide of a carousel.                       *)
(***************************************************************************)
WalkSlideSeqs == UNION {[1 .. n -> {PHOTO, CLIP}] : n \in 2 .. MaxWalkSlides}

InitWalk ==
    /\ \E s \in WalkSlideSeqs : feed = <<[type |-> CAROUSEL, slides |-> s]>>
    /\ result_cache = {}
    /\ post_type_cache = {}
    /\ live = {1}
    /\ pc = [r \in Requests |-> IF r = 1 THEN "carousel_container" ELSE "idle"]
    /\ \E m \in InstagramMediaTypesSelectors, c \in 1 .. MaxWalkCount :
          /\ call = [r \in Requests |->
                       IF r = 1 THEN [NoCall EXCEPT !.media_type = m, !.driver = 1]
                       ELSE NoCall]
          /\ loc = [r \in Requests |->
                       IF r = 1 THEN [NoLoc EXCEPT !.max_count = c] ELSE NoLoc]
    /\ page = [r \in Requests |-> IF r = 1 THEN [kind |-> "post", post |-> 1, slide |-> 1]
                                   ELSE BlankPage]
    /\ obs = [r \in Requests |-> NoObs]
    /\ out = [r \in Requests |-> NoOut]
    /\ h = NoHarness

NextWalk == carousel_container(1) \/ carousel_slide(1) \/ carousel_next(1)

SpecWalk == InitWalk /\ [][NextWalk]_vars

(***************************************************************************)
(* Properties.                                                             *)
(***************************************************************************)
Ended(r) == pc[r] \in {"release", "done"}
Triple(c) == <<c.username, c.media_type, c.max_count>>
\* the kinds of failure a scripted operation can show
FailKinds(func) ==
    {func.fails[i] : i \in 1 .. Len(func.fails)}
    \cup (IF func.rest = "ok" THEN {} ELSE {func.rest})
Min(a, b) == IF a <= b THEN a ELSE b

C2_UserNotFound ==
    \A r \in Requests :
        /\ (/\ call[r].username \notin Profiles
            /\ obs[r].navs >= 2 /\ pc[r] # "validate_posts") =>
                /\ Ended(r)
                /\ out[r].status = "raised" /\ out[r].error = UserNotFound
                /\ out[r].username = call[r].username
                /\ out[r].urls = <<>>
        /\ (out[r].error = UserNotFound =>
                /\ call[r].username \notin Profiles
                /\ out[r].username = call[r].username)

C2_Witness ==
    \E r \in Requests :
        /\ call[r].username = "ghostuser" /\ call[r].max_count > 0
        /\ out[r].status = "raised" /\ out[r].error = UserNotFound
        /\ pc[r] = "done"

\* C3 as claimed: a login that finds its username field, password field or
\* submit button absent raises nothing out of validate_user, which goes on
\* to open the profile URL: no error leaves the call before the profile URL
\* was opened.
C3_Claim ==
    \A r \in Requests : out[r].status = "raised" => obs[r].navs >= 2

C6_Absent ==
    (h.kind = "find_element" /\ h.done /\ FailKinds(h.func) = {NoSuchElement}
     /\ h.func.rest = NoSuchElement) =>
        /\ ~h.res.raised /\ h.res.value = None
        /\ h.res.invocations = h.top_attempts
        /\ h.res.delays = h.top_attempts - 1

C6_Witness ==
    /\ h.kind = "find_element" /\ h.done /\ h.top_attempts = 3
    /\ h.func.fails = <<>> /\ h.func.rest = NoSuchElement
    /\ ~h.res.raised /\ h.res.value = None /\ h.res.invocations = 3

\* C7 as claimed: once the profile is validated and opened, an element that
\* is absent never surfaces as an error: no call ends with the error of
\* reading an attribute of None.
C7_Claim ==
    \A r \in Requests :
        (out[r].status = "raised" /\ obs[r].navs = 3) => out[r].error # AttributeError

\* the src of the Photo posts of a feed, in feed order
PhotoSrcs(f) ==
    LET photos == SelectSeq([i \in 1 .. Len(f) |-> i], LAMBDA i : f[i].type = PHOTO)
    IN  [n \in 1 .. Len(photos) |-> <<photos[n], 0>>]
NoCarousel(f) == \A i \in 1 .. Len(f) : f[i].type # CAROUSEL

\* C8 as claimed, on feeds of Photo and Clip posts: a Photo extraction with
\* max_count = m > 0 of a validated profile returns the src of the first
\* min(m, number of Photo posts) Photo posts, in feed order.
C8_Claim ==
    \A r \in Requests :
        (/\ call[r].media_type = PHOTO /\ call[r].max_count > 0
         /\ NoCarousel(feed) /\ obs[r].navs = 3 /\ Ended(r)) =>
            /\ out[r].status = "returned"
            /\ out[r].urls = SubSeq(PhotoSrcs(feed), 1,
                                    Min(call[r].max_count, Len(PhotoSrcs(feed))))

\* a live entry stored by a call with the same username, media type and
\* max_count
SameArgsCached(r) ==
    \E e \in result_cache :
        <<e.key.username, e.key.media_type, e.key.max_count>> = Triple(call[r])

\* C9 as claimed: a call that reads the cache while an entry stored for the
\* same (username, media type, max_count) is live returns the stored
\* collection without touching its page session.
C9_Claim ==
    [][\A r \in Requests :
          (pc[r] = "cache_get" /\ pc'[r] # "cache_get" /\ SameArgsCached(r)) =>
              /\ pc'[r] = "release"
              /\ out'[r].hit /\ out'[r].status = "returned"
              /\ obs'[r].navs = 0]_vars

\* C10 as claimed: two calls have the same cache key exactly when they
\* agree on username, media type and max_count, whatever their drivers.
C10_Claim ==
    \A r1, r2 \in Requests :
        (pc[r1] \notin {"idle", "cache_get"} /\ pc[r2] \notin {"idle", "cache_get"}) =>
            (loc[r1].key = loc[r2].key <=> Triple(call[r1]) = Triple(call[r2]))

\* the src of the slides among the first n of the open carousel that show
\* the media type asked for, in slide order
Matches(r, n) ==
    LET slides == feed[page[r].post].slides
        hits == SelectSeq([i \in 1 .. n |-> i],
                          LAMBDA i : slides[i] = call[r].media_type)
    IN  [k \in 1 .. Len(hits) |-> <<page[r].post, hits[k]>>]

\* C11: get_carousel_media inspects the slides in order and makes one
\* next_element step per slide it inspects, matching or not; the links are
\* the src of the matching slides among those inspected; the walk goes on
\* while fewer than max_count links are collected and the last step did not
\* report end, and returns as soon as either fails; with max_count = 3 and
\* matches on slides 1, 3 and 5 only it returns 3 links after 5 steps.
C11_Walk ==
    \A r \in Requests :
        LET o == obs[r]
            slides == feed[page[r].post].slides
        IN  /\ pc[r] \in {"carousel_container", "carousel_slide", "carousel_return"} =>
                    /\ o.steps = o.inspected
                    /\ loc[r].links = Matches(r, o.inspected)
            /\ pc[r] = "carousel_next" =>
                    /\ o.steps = o.inspected - 1
                    /\ page[r].slide = o.inspected
                    /\ loc[r].links = Matches(r, o.inspected)
            /\ (pc[r] \in {"carousel_container", "carousel_slide"} /\ o.inspected > 0) =>
                    /\ Len(loc[r].links) < loc[r].max_count
                    /\ ~o.step.end /\ page[r].slide = o.inspected + 1
            /\ pc[r] = "carousel_return" =>
                    /\ Len(loc[r].links) = loc[r].max_count \/ o.step.end
                    /\ Len(loc[r].links) <= loc[r].max_count
                    /\ Len(Matches(r, o.inspected - 1)) < loc[r].max_count
                    /\ o.step.end <=> o.inspected = Len(slides)
                    /\ (/\ loc[r].max_count = 3 /\ Len(slides) >= 5
                        /\ \A i \in 1 .. 5 :
                              slides[i] = call[r].media_type <=> i \in {1, 3, 5}) =>
                            Len(loc[r].links) = 3 /\ o.steps = 5

C11_Witness ==
    /\ pc[1] = "carousel_return"
    /\ loc[1].max_count = 3 /\ call[1].media_type = PHOTO
    /\ feed[1].slides = <<PHOTO, CLIP, PHOTO, CLIP, PHOTO>>
    /\ loc[1].links = <<<<1, 1>>, <<1, 3>>, <<1, 5>>>>
    /\ obs[1].steps = 5 /\ obs[1].step.end

\* the live entries stored for a (username, media type, max_count)
EntriesFor(t) ==
    {e \in result_cache : <<e.key.username, e.key.media_type, e.key.max_count>> = t}

\* C12 as claimed: a request returns what it extracted on its own session
\* or what a request with the same (username, media type, max_count) stored,
\* and two requests that missed on the same (username, media type,
\* max_count) while both were running both write that key: the cache holds
\* at most one entry for it, with one of the two collections written.
C12_Claim ==
    \A r1, r2 \in Requests :
        (/\ r1 # r2 /\ Triple(call[r1]) = Triple(call[r2])
         /\ obs[r1].overlap \/ obs[r2].overlap
         /\ out[r1].status = "returned" /\ ~out[r1].hit
         /\ out[r2].status = "returned" /\ ~out[r2].hit) =>
            /\ Cardinality(EntriesFor(Triple(call[r1]))) <= 1
            /\ \A e \in EntriesFor(Triple(call[r1])) :
                  e.val \in {out[r1].urls, out[r2].urls}

\* C13: the page session of a request is live exactly while the request
\* runs: it is created when the request starts and released when the
\* request ends, however get_profile_media_urls ended (collection returned,
\* UserNotFound or any other error raised); every session created is
\* eventually released, and its request is then over.
C13_Released ==
    /\ [](\A r \in Requests :
            /\ (call[r].driver \in live <=> pc[r] \notin {"idle", "done"})
            /\ (pc[r] = "done" => out[r].status \in {"returned", "raised"}))
    /\ [](live \subseteq {call[r].driver : r \in Requests})
    /\ \A r \in Requests : (r \in live) ~> (r \notin live /\ pc[r] = "done")

C13_Witness ==
    \E r \in Requests :
        /\ pc[r] = "done" /\ live = {}
        /\ out[r].status = "raised" /\ out[r].error = AttributeError
        /\ obs[r].navs = 3 /\ obs[r].iterations > 0

\* the type of the post a page shows: the carousel marker in the URL gives
\* Carousel, else a Photo element gives Photo, else Clip
TypeOfOpenPost(pg) ==
    IF HasImgIndex(pg) THEN CAROUSEL
    ELSE IF Shown(pg) = PHOTO THEN PHOTO ELSE CLIP

\* C14 as claimed: in every iteration of the post loop the type that
\* get_post_type returned is the type of the post open in the session.
C14_Claim ==
    \A r \in Requests :
        pc[r] = "post_media" => loc[r].post_type = TypeOfOpenPost(page[r])

\* C15: a next_element step clicks at most once. A control that one of the
\* step's lookups finds is clicked exactly once, by script exactly when the
\* click was intercepted, and the step reports not-end; a control that none
\* of its lookups finds is not clicked and the step reports end; so the step
\* reports end exactly when it clicked nothing.
C15_OneClick ==
    (h.kind = "next_element" /\ h.done) =>
        LET found == /\ h.func.rest = "ok"
                     /\ Len(h.func.fails) < h.top_attempts * FIND_TRIES
        IN  /\ h.step.clicks <= 1
            /\ found => /\ h.step.clicks = 1 /\ ~h.step.end
                        /\ h.step.scripted = h.intercepted
            /\ ~found => h.step.clicks = 0 /\ h.step.end /\ ~h.step.scripted
            /\ h.step.end <=> h.step.clicks = 0

C15_Witness ==
    /\ h.kind = "next_element" /\ h.done
    /\ h.top_attempts = 2 /\ h.func = Rendered(FIND_TRIES + 1) /\ h.intercepted
    /\ h.step.clicks = 1 /\ h.step.scripted /\ ~h.step.end

\* C16 as claimed: a next_element step with tries = t that reports end has
\* looked the control up at most t times.
C16_Claim ==
    (h.kind = "next_element" /\ h.done /\ h.step.end) =>
        h.step.lookups <= h.top_attempts

\* C17: the collection of get_profile_media_urls never holds more than
\* max_count URLs, while it is built and when it is returned, and holds at
\* most one URL of each post visited: its URLs are of different posts, in
\* feed order, and never more than the iterations of the post loop begun.
C17_Bounded ==
    \A r \in Requests :
        /\ Len(loc[r].medias) <= call[r].max_count
        /\ Len(out[r].urls) <= call[r].max_count
        /\ Len(loc[r].medias) <= obs[r].iterations
        /\ \A i, j \in 1 .. Len(loc[r].medias) :
              i < j => loc[r].medias[i][1] < loc[r].medias[j][1]
        /\ \A i, j \in 1 .. Len(out[r].urls) :
              i < j => out[r].urls[i][1] < out[r].urls[j][1]

C17_Witness ==
    \E r \in Requests :
        /\ pc[r] = "done" /\ out[r].status = "returned"
        /\ call[r].max_count = MaxCount /\ Len(out[r].urls) = MaxCount
        /\ \E i \in 1 .. Len(out[r].urls) : out[r].urls[i][2] > 0
        /\ obs[r].iterations = MaxPosts

\* what the cache holds, without the times to live
Content(entries) == {<<e.key, e.val>> : e \in entries}

\* C18: a call that raises writes nothing to the result cache: the step on
\* which it raises adds no entry, a call that raised has no entry under its
\* key, no entry is ever stored for a username whose profile lacks the
\* 'Posts' marker, and a later call with the same username, media type and
\* max_count that finds no entry stored for them misses and logs in and
\* validates again.
C18_NoWrite ==
    /\ [](\A e \in result_cache : e.key.username \in Profiles)
    /\ [](\A r \in Requests :
            out[r].status = "raised" => ~Hit(result_cache, profile_media_key(call[r])))
    /\ [][\A r \in Requests :
            (out[r].status # "raised" /\ out'[r].status = "raised") =>
                Content(result_cache') \subseteq Content(result_cache)]_vars
    /\ [][\A r, q \in Requests :
            (/\ q # r /\ out[q].status = "raised" /\ Triple(call[q]) = Triple(call[r])
             /\ pc[r] = "cache_get" /\ pc'[r] # "cache_get" /\ ~SameArgsCached(r)) =>
                pc'[r] = "login_get_url" /\ ~out'[r].hit]_vars

C18_Witness ==
    /\ pc[1] = "done" /\ out[1].status = "raised" /\ out[1].error = UserNotFound
    /\ Triple(call[2]) = Triple(call[1])
    /\ pc[2] = "validate_posts" /\ obs[2].navs = 2
    /\ result_cache = {}

\* the slides of the carousels of a feed
RECURSIVE SlidesOf(_)
SlidesOf(f) ==
    IF f = <<>> THEN 0 ELSE Len(Head(f).slides) + SlidesOf(Tail(f))

\* C19: get_profile_media_urls terminates on every feed and for every
\* max_count: no next_element step makes more lookups than its budget of
\* tries * 10, the carousel walks inspect no more slides than the feed has
\* and advance once per slide inspected, the post loop begins at most
\* Len(feed) iterations and is left only with max_count URLs collected or
\* with the next-post control absent, and every request that started ends.
C19_Terminates ==
    /\ [](\A r \in Requests :
            /\ obs[r].step.lookups <= SLIDE_TRIES * FIND_TRIES
            /\ obs[r].steps <= obs[r].inspected
            /\ obs[r].inspected <= SlidesOf(feed)
            /\ obs[r].iterations <= Len(feed)
            /\ (pc[r] = "cache_set" /\ page[r].kind = "post") =>
                    \/ Len(loc[r].medias) = call[r].max_count
                    \/ loc[r].last_post /\ ~HasNextPost(page[r]))
    /\ \A r \in Requests : (pc[r] = "cache_get") ~> (pc[r] = "done")

C19_Witness ==
    \E r \in Requests :
        /\ pc[r] = "done" /\ out[r].status = "returned" /\ out[r].urls = <<>>
        /\ call[r].max_count > 0
        /\ Len(feed) = MaxPosts /\ obs[r].iterations = Len(feed)
=============================================================================
